---- MODULE Spec2Model ----
(***************************************************************************)
(* niko-clip backend: the smile-scene pipeline (backend/routers.py), the   *)
(* Redis task repository (backend/services/task_repository.py), the        *)
(* diverse candidate selector and the image result builder                 *)
(* (services/image_service.py).                                            *)
(*                                                                         *)
(* Time.  A candidate's timestamp is frame_number / fps, a rational; the   *)
(* model keeps timestamps as whole ticks (in the pipeline one tick is      *)
(* 1/fps second, so the timestamp of frame n is n ticks and the window of  *)
(* 1.0 s is fps ticks).  select_diverse_candidates compares a timestamp    *)
(* with t -/+ time_threshold / 2; the model compares the doubled values,   *)
(* which is the same comparison without the fraction.                      *)
(*                                                                         *)
(* Scores are in tenths: the smile threshold 0.6 is 6.  The sampling       *)
(* interval is in tenths of a second.                                      *)
(*                                                                         *)
(* Several specifications share the module.  SpecSelect applies the selector  *)
(* to bounded candidate lists.  SpecImage applies the ImageService to the  *)
(* files it can find at image_path.  SpecRepo runs a repository client, a  *)
(* reader, DEL and key expiry against each other, one Redis command a      *)
(* step.  Spec runs process_video_task for one task against DEL and key    *)
(* expiry; get_task writes nothing, so what a reader would get in a state  *)
(* of Spec is View(k), the decoded hash of that state.  FairSpec is Spec    *)
(* with the background thread scheduled fairly.  SpecSampler runs the      *)
(* start of process_video_task for every frame rate and sampling interval, *)
(* and SpecExtract applies _extract_smile_candidates to the detections of  *)
(* one frame.                                                              *)
(***************************************************************************)
EXTENDS Integers, Sequences, FiniteSets, TLC

\* ---------------------------------------------------------------- bounds
MaxCands == 3        \* longest candidate list given to the selector
MaxTs == 3           \* largest timestamp (ticks) of a selector input
MaxThr == 3          \* largest time_threshold (ticks) of a selector input

SelScores == {7, 8, 9}

MaxCalls == 3        \* repository calls one client makes
MaxFrames == 4       \* most frames a video delivers or reports
MaxFaces == 2        \* most faces the detector returns for one frame
MaxSmiles == 4       \* most smile candidates one run collects
MaxFps == 30         \* largest frame rate a video reports to the sampler
MaxInterval == 20    \* largest sampling interval, in tenths of a second
MaxExcess == 1       \* most bytes an image file is over the size limit

TaskIds == {"t1", "t2"}

VARIABLES
    sel_in,          \* the candidate list passed in
    sel_thr,         \* time_threshold
    sel_out,         \* the list returned
    sel_pc,          \* "idle", or which call produced sel_out
    redis,           \* Redis: task id -> hash "tasks:<id>" (no field: no key)
    ttl,             \* Redis: task id -> "set" when the key has an expiry
    elapsed,         \* task id -> the TTL set by its last create has run out
    seen,            \* what the last get_task of a reader returned
    cl,              \* the repository client: its call and where it stands
    config,          \* the attributes of the config module the run reads
    video,           \* the uploaded video: what cv2 reports and delivers
    pc,              \* where process_video_task stands
    cap,             \* the cv2.VideoCapture handle
    video_file,      \* the uploaded file on disk
    fps,
    frame_skip,
    frame_number,
    smile_candidates,
    top_smiles,      \* what select_diverse_candidates returned to the run
    staged,          \* the scratch file cv2.imwrite left for each of top_smiles
    scratch,         \* scene numbers whose scratch image file is on disk
    retrieved,       \* the frame cap.retrieve() gave in this iteration (-1: none)
    calls,           \* repository calls the current step still has to make
    exc,             \* the message of the exception being handled
    status_writes,   \* history: the status values the run has written
    releases,        \* history: calls of cap.release()
    unlinks,         \* history: times the uploaded file was unlinked
    escaped,         \* the exception that leaves process_video_task ("": none)
    img_file,        \* the file at image_path
    img_force,       \* force_fallback
    img_out,         \* what the ImageService call returned or raised
    img_pc,          \* "idle", or which ImageService call produced img_out
    ext_faces,       \* the detections of the frame given to the extractor
    ext_frame_number, \* its frame_number argument
    ext_fps,         \* its fps argument
    ext_out,         \* the candidates it returned
    ext_pc           \* "idle", "done" once it has returned

sel_vars == <<sel_in, sel_thr, sel_out, sel_pc>>
ext_vars == <<ext_faces, ext_frame_number, ext_fps, ext_out, ext_pc>>
img_vars == <<img_file, img_force, img_out, img_pc>>
store_vars == <<redis, ttl, elapsed>>
repo_vars == <<redis, ttl, elapsed, seen, cl>>
exit_vars == <<releases, unlinks, escaped>>
run_vars == <<config, video, pc, cap, video_file, fps, frame_skip, frame_number,
              smile_candidates, top_smiles, staged, scratch, retrieved, calls, exc, status_writes,
              releases, unlinks, escaped>>
vars == <<sel_in, sel_thr, sel_out, sel_pc, redis, ttl, elapsed, seen, cl,
          config, video, pc, cap, video_file, fps, frame_skip, frame_number,
          smile_candidates, top_smiles, staged, scratch, retrieved, calls, exc, status_writes,
          releases, unlinks, escaped, img_file, img_force, img_out, img_pc,
          ext_faces, ext_frame_number, ext_fps, ext_out, ext_pc>>

\* ------------------------------------------------------- helper functions
Max(a, b) == IF a >= b THEN a ELSE b

Range(s) == {s[i] : i \in 1..Len(s)}

SeqsUpTo(S, n) == UNION {[1..k -> S] : k \in 0..n}

\* ------------------------------------------- select_diverse_candidates
\* no used range looked at: every candidate passes
IsDiverseUnchecked(candidate_time, used_time_ranges) == TRUE

\* the ends of a used range left out
IsDiverseStrict(candidate_time, used_time_ranges) ==
    \A r \in 1..Len(used_time_ranges) :
        ~(used_time_ranges[r][1] < 2 * candidate_time
          /\ 2 * candidate_time < used_time_ranges[r][2])

\* routers.py:55-58: the candidate is rejected when its time lies inside a
\* used range, both ends included.
IsDiverse(candidate_time, used_time_ranges) ==
    \A r \in 1..Len(used_time_ranges) :
        ~(used_time_ranges[r][1] <= 2 * candidate_time
          /\ 2 * candidate_time <= used_time_ranges[r][2])

\* the range started at the candidate's own time instead of half a threshold
\* before it
ClaimedRangeForwardOnly(candidate_time, time_threshold) ==
    <<2 * candidate_time, 2 * candidate_time + time_threshold>>

\* routers.py:62-64: the range claimed by an accepted candidate (doubled).
ClaimedRange(candidate_time, time_threshold) ==
    <<Max(0, 2 * candidate_time - time_threshold),
      2 * candidate_time + time_threshold>>

RECURSIVE SelectLoop(_, _, _, _, _)
SelectLoop(candidates, time_threshold, i, selected_candidates, used_time_ranges) ==
    IF i > Len(candidates)
    THEN selected_candidates
    ELSE LET candidate == candidates[i]
             candidate_time == candidate.timestamp
         IN  IF IsDiverse(candidate_time, used_time_ranges)
             THEN SelectLoop(candidates, time_threshold, i + 1,
                             Append(selected_candidates, candidate),
                             Append(used_time_ranges,
                                    ClaimedRange(candidate_time, time_threshold)))
             ELSE SelectLoop(candidates, time_threshold, i + 1,
                             selected_candidates, used_time_ranges)

select_diverse_candidates(candidates, time_threshold) ==
    IF candidates = <<>>
    THEN <<>>
    ELSE SelectLoop(candidates, time_threshold, 1, <<>>, <<>>)

\* routers.py:173: list.sort(key=smile_score, reverse=True).  Python's sort is
\* stable, also under reverse=True: candidates of equal score keep their order.
RECURSIVE InsertByScore(_, _)
InsertByScore(sorted, c) ==
    IF sorted = <<>>
    THEN <<c>>
    ELSE IF Head(sorted).smile_score >= c.smile_score
         THEN <<Head(sorted)>> \o InsertByScore(Tail(sorted), c)
         ELSE <<c>> \o sorted

\* the sort without reverse=True
RECURSIVE InsertByScoreAscending(_, _)
InsertByScoreAscending(sorted, c) ==
    IF sorted = <<>>
    THEN <<c>>
    ELSE IF Head(sorted).smile_score <= c.smile_score
         THEN <<Head(sorted)>> \o InsertByScoreAscending(Tail(sorted), c)
         ELSE <<c>> \o sorted

RECURSIVE SortAscending(_)
SortAscending(candidates) ==
    IF candidates = <<>>
    THEN <<>>
    ELSE InsertByScoreAscending(
             SortAscending(SubSeq(candidates, 1, Len(candidates) - 1)),
             candidates[Len(candidates)])

\* the list left in the order the frames gave it
SortOmitted(candidates) == candidates

RECURSIVE SortByScoreDesc(_)
SortByScoreDesc(candidates) ==
    IF candidates = <<>>
    THEN <<>>
    ELSE InsertByScore(
             SortByScoreDesc(SubSeq(candidates, 1, Len(candidates) - 1)),
             candidates[Len(candidates)])

\* routers.py:173-174: what _finalize_smile_results does with the candidates.
SortThenSelect(candidates, time_threshold) ==
    select_diverse_candidates(SortByScoreDesc(candidates), time_threshold)

SelIdle ==
    /\ sel_in = <<>>
    /\ sel_thr = 0
    /\ sel_out = <<>>
    /\ sel_pc = "idle"

NoFile == [exists |-> FALSE, suffix |-> ".jpg", size_bytes |-> 0,
           readable |-> FALSE, reads |-> FALSE]

ImgIdle ==
    /\ img_file = NoFile
    /\ img_force = FALSE
    /\ img_out = [ok |-> FALSE]
    /\ img_pc = "idle"

ExtIdle ==
    /\ ext_faces = <<>>
    /\ ext_frame_number = 0
    /\ ext_fps = 0
    /\ ext_out = <<>>
    /\ ext_pc = "idle"

NoConfig == [a \in {} |-> 0]

NoVideo == [opens |-> FALSE, total_frames |-> 0, frames |-> 0, fps |-> 0]

RunIdle ==
    /\ config = NoConfig
    /\ video = NoVideo
    /\ pc = "idle"
    /\ cap = "none"
    /\ video_file = "none"
    /\ fps = 0
    /\ frame_skip = 0
    /\ frame_number = 0
    /\ smile_candidates = <<>>
    /\ top_smiles = <<>>
    /\ staged = <<>>
    /\ scratch = {}
    /\ retrieved = -1
    /\ calls = <<>>
    /\ exc = ""
    /\ status_writes = <<>>
    /\ releases = 0
    /\ unlinks = 0
    /\ escaped = ""

\* ------------------------------------------------------- task repository
\* Redis holds strings.  redis-py writes a str as it is, an int as its decimal
\* digits and a float as its repr; append_task_results writes json.dumps of
\* the list.  The fields' Python types are fixed by their writers: progress is
\* an int, created_at a float, results a list, every other field a str.
RECURSIVE DecimalDigits(_)
\* str(n) of an int n >= 0, as redis-py sends it: the decimal digits
DecimalDigits(n) ==
    IF n < 10 THEN <<n>> ELSE Append(DecimalDigits(n \div 10), n % 10)

RECURSIVE ParseIntLeastSignificantFirst(_)
\* the digits read from the wrong end
ParseIntLeastSignificantFirst(digits) ==
    IF digits = <<>> THEN 0
    ELSE digits[1] + 10 * ParseIntLeastSignificantFirst(Tail(digits))

RECURSIVE ParseInt(_)
\* task_repository.py:66: int() of a string of decimal digits
ParseInt(digits) ==
    IF digits = <<>> THEN 0
    ELSE 10 * ParseInt(SubSeq(digits, 1, Len(digits) - 1)) + digits[Len(digits)]

RedisEncode(field, value) ==
    CASE field = "progress" -> [digits |-> DecimalDigits(value)]
      [] field = "created_at" -> [repr |-> value]
      [] field = "results" -> [json |-> value]
      [] OTHER -> value

\* EXISTS tasks:<id>
Exists(task_id) == DOMAIN redis[task_id] # {}

\* the hash replaced by the mapping
HSetReplacing(hash, mapping) ==
    [f \in DOMAIN mapping |-> RedisEncode(f, mapping[f])]

\* HSET tasks:<id> field value [field value ...]: one command, all fields
HSet(hash, mapping) ==
    [f \in DOMAIN hash \cup DOMAIN mapping |->
        IF f \in DOMAIN mapping THEN RedisEncode(f, mapping[f]) ELSE hash[f]]

NoHash == [f \in {} |-> ""]

\* task_repository.py:62-70: what get_task makes of the strings of HGETALL
GetDecode(data) ==
    [f \in DOMAIN data |->
        CASE f = "results" -> data[f].json
          [] f = "progress" -> ParseInt(data[f].digits)
          [] f = "created_at" -> data[f].repr
          [] OTHER -> data[f]]

Idle(n) == [pc |-> "idle", n |-> n, op |-> "none", id |-> "t1",
            arg |-> NoHash, result |-> "none"]

RepoIdle ==
    /\ redis = [k \in TaskIds |-> NoHash]
    /\ ttl = [k \in TaskIds |-> "none"]
    /\ elapsed = [k \in TaskIds |-> FALSE]
    /\ seen = [id |-> "none", found |-> FALSE, data |-> NoHash]
    /\ cl = Idle(0)

\* payloads the callers pass (routers.py:82, 166, 186, 198-201, 288-292)
CreatePayloads ==
    {[filename |-> "a.mp4", progress |-> 0, created_at |-> 17],
     [filename |-> "b.mov", progress |-> 0, created_at |-> 18]}

UpdatePayloads ==
    {[progress |-> 50],
     [status |-> "complete"],
     [status |-> "complete", progress |-> 100],
     [status |-> "error", error |-> "boom"]}

ResultLists ==
    {<<>>,
     <<[timestamp |-> [cs |-> 200], score |-> 9,
        image_data |-> [scheme |-> "data",
                        mime_type |-> [type |-> "image", subtype |-> "jpeg"],
                        encoding |-> "base64",
                        payload |-> [b64encode |-> 1024]]]>>}

Returned(op, task_id, arg, result) ==
    [pc |-> "idle", n |-> cl.n + 1, op |-> op, id |-> task_id,
     arg |-> arg, result |-> result]

Pending(op, task_id, arg) ==
    [pc |-> "hset", n |-> cl.n + 1, op |-> op, id |-> task_id,
     arg |-> arg, result |-> "none"]

\* the create without its EXPIRE
create_task_without_expire(task_id, payload) ==
    /\ cl.pc = "idle"
    /\ cl.n < MaxCalls
    /\ LET data == payload @@ [status |-> "processing"]
       IN  redis' = [redis EXCEPT ![task_id] = HSet(@, data)]
    /\ elapsed' = [elapsed EXCEPT ![task_id] = FALSE]
    /\ cl' = Returned("create_task", task_id,
                      payload @@ [status |-> "processing"], "ok")
    /\ UNCHANGED <<ttl, seen>>

\* task_repository.py:30-37: HSET and EXPIRE in one MULTI/EXEC pipeline
create_task(task_id, payload) ==
    /\ cl.pc = "idle"
    /\ cl.n < MaxCalls
    /\ LET data == payload @@ [status |-> "processing"]
       IN  redis' = [redis EXCEPT ![task_id] = HSet(@, data)]
    /\ ttl' = [ttl EXCEPT ![task_id] = "set"]
    /\ elapsed' = [elapsed EXCEPT ![task_id] = FALSE]
    /\ cl' = Returned("create_task", task_id,
                      payload @@ [status |-> "processing"], "ok")
    /\ UNCHANGED seen

\* the existence check left out: the write goes ahead
update_task_exists_unchecked(task_id, payload) ==
    /\ cl.pc = "idle"
    /\ cl.n < MaxCalls
    /\ cl' = Pending("update_task", task_id, payload)
    /\ UNCHANGED <<redis, ttl, elapsed, seen>>

\* task_repository.py:42-43: EXISTS, and TaskNotFoundError when it is 0
update_task_exists(task_id, payload) ==
    /\ cl.pc = "idle"
    /\ cl.n < MaxCalls
    /\ cl' = IF Exists(task_id)
             THEN Pending("update_task", task_id, payload)
             ELSE Returned("update_task", task_id, payload, "TaskNotFound")
    /\ UNCHANGED <<redis, ttl, elapsed, seen>>

\* task_repository.py:50-51
append_task_results_exists(task_id, results) ==
    /\ cl.pc = "idle"
    /\ cl.n < MaxCalls
    /\ cl' = IF Exists(task_id)
             THEN Pending("append_task_results", task_id, [results |-> results])
             ELSE Returned("append_task_results", task_id,
                           [results |-> results], "TaskNotFound")
    /\ UNCHANGED <<redis, ttl, elapsed, seen>>

\* task_repository.py:45 and 53: the HSET of update_task and of
\* append_task_results, a second command after the EXISTS.  HSET creates the
\* key when it is not there; a key made this way has no expiry.
repository_hset ==
    /\ cl.pc = "hset"
    /\ redis' = [redis EXCEPT ![cl.id] = HSet(@, cl.arg)]
    /\ cl' = [cl EXCEPT !.pc = "idle", !.result = "ok"]
    /\ UNCHANGED <<ttl, elapsed, seen>>

\* task_repository.py:55-72: HGETALL, TaskNotFoundError on an empty reply
get_task(task_id) ==
    /\ seen' = IF redis[task_id] = NoHash
               THEN [id |-> task_id, found |-> FALSE, data |-> NoHash]
               ELSE [id |-> task_id, found |-> TRUE,
                     data |-> GetDecode(redis[task_id])]
    /\ UNCHANGED <<redis, ttl, elapsed, cl>>

\* task_repository.py:74-77: DEL
delete_task(task_id) ==
    /\ Exists(task_id)
    /\ redis' = [redis EXCEPT ![task_id] = NoHash]
    /\ ttl' = [ttl EXCEPT ![task_id] = "none"]
    /\ UNCHANGED <<elapsed, seen, cl>>

\* Redis: REDIS_TASK_TTL_SECONDS after the EXPIRE the key is gone
ExpireKey(task_id) ==
    /\ ttl[task_id] = "set"
    /\ redis' = [redis EXCEPT ![task_id] = NoHash]
    /\ ttl' = [ttl EXCEPT ![task_id] = "none"]
    /\ elapsed' = [elapsed EXCEPT ![task_id] = TRUE]
    /\ UNCHANGED <<seen, cl>>

RepoInit == RepoIdle /\ SelIdle /\ RunIdle /\ ImgIdle /\ ExtIdle

ClientCreate ==
    /\ \E k \in TaskIds, p \in CreatePayloads : create_task(k, p)
    /\ UNCHANGED <<ext_vars, img_vars, sel_vars, run_vars>>

ClientUpdate ==
    /\ \E k \in TaskIds, p \in UpdatePayloads : update_task_exists(k, p)
    /\ UNCHANGED <<ext_vars, img_vars, sel_vars, run_vars>>

ClientAppend ==
    /\ \E k \in TaskIds, r \in ResultLists : append_task_results_exists(k, r)
    /\ UNCHANGED <<ext_vars, img_vars, sel_vars, run_vars>>

ClientHset ==
    /\ repository_hset
    /\ UNCHANGED <<ext_vars, img_vars, sel_vars, run_vars>>

ReaderGet ==
    /\ \E k \in TaskIds : get_task(k)
    /\ UNCHANGED <<ext_vars, img_vars, sel_vars, run_vars>>

Delete ==
    /\ \E k \in TaskIds : delete_task(k)
    /\ UNCHANGED <<ext_vars, img_vars, sel_vars, run_vars>>

Expire ==
    /\ \E k \in TaskIds : ExpireKey(k)
    /\ UNCHANGED <<ext_vars, img_vars, sel_vars, run_vars>>

RepoNext ==
    \/ ClientCreate
    \/ ClientUpdate
    \/ ClientAppend
    \/ ClientHset
    \/ ReaderGet
    \/ Delete
    \/ Expire

SpecRepo == RepoInit /\ [][RepoNext]_vars

\* --------------------------------------------------------- ImageService
\* What the file system holds at image_path.  readable: open() and the read of
\* the first bytes succeed (validate_image_file); reads: the read of the whole
\* file succeeds (encode_image_to_base64).
Suffixes == {".jpg", ".JPG", ".png", ".txt"}

\* str.lower() on a suffix
Lower(suffix) == IF suffix = ".JPG" THEN ".jpg" ELSE suffix

BytesPerMB == 1024 * 1024

MAX_BASE64_IMAGE_SIZE_MB == 5

FileSizes ==
    {0, 1024} \cup
    {MAX_BASE64_IMAGE_SIZE_MB * BytesPerMB + d : d \in 0..MaxExcess}

ImageFiles ==
    [exists : BOOLEAN, suffix : Suffixes, size_bytes : FileSizes,
     readable : BOOLEAN, reads : BOOLEAN]

supported_extensions == {".jpg", ".jpeg", ".png", ".gif", ".bmp", ".webp"}

\* image_service.py:76-85: mime_type_map.get(extension, "image/jpeg")
MimeType(extension) ==
    CASE extension \in {".jpg", ".jpeg"} -> [type |-> "image", subtype |-> "jpeg"]
      [] extension = ".png" -> [type |-> "image", subtype |-> "png"]
      [] extension = ".gif" -> [type |-> "image", subtype |-> "gif"]
      [] extension = ".bmp" -> [type |-> "image", subtype |-> "bmp"]
      [] extension = ".webp" -> [type |-> "image", subtype |-> "webp"]
      [] OTHER -> [type |-> "image", subtype |-> "jpeg"]

\* image_service.py:92: f"data:{mime_type};base64,{base64_string}", kept in
\* its parts; the payload is the base64 text of the file's bytes
DataUri(mime_type, file) ==
    [scheme |-> "data", mime_type |-> mime_type, encoding |-> "base64",
     payload |-> [b64encode |-> file.size_bytes]]

\* schemas.py:20-27: v.startswith("data:image/")
validate_base64_format(v) == v.scheme = "data" /\ v.mime_type.type = "image"

\* image_service.py:291-327
validate_image_file(file) ==
    IF ~file.exists
    THEN FALSE
    ELSE IF Lower(file.suffix) \notin supported_extensions
         THEN FALSE
         ELSE IF file.size_bytes = 0
              THEN FALSE
              ELSE file.readable

\* the limit taken as exclusive
size_limit_reached(size_bytes) ==
    size_bytes >= MAX_BASE64_IMAGE_SIZE_MB * BytesPerMB

\* image_service.py:162: size_bytes / (1024 * 1024) > MAX_BASE64_IMAGE_SIZE_MB.
\* The division by a power of two is exact, so this is the same comparison in
\* bytes.
size_limit_exceeded(size_bytes) ==
    size_bytes > MAX_BASE64_IMAGE_SIZE_MB * BytesPerMB

\* image_service.py:118-182.  steps: the checks the call went through.
should_use_base64(file, force_fallback) ==
    IF ~validate_image_file(file)
    THEN [use_base64 |-> FALSE, reason |-> "invalid_file",
          error |-> "is not valid or accessible", steps |-> <<"validate">>]
    ELSE IF force_fallback
         THEN [use_base64 |-> FALSE, reason |-> "forced_fallback",
               error |-> "", steps |-> <<"validate", "size">>]
         ELSE IF size_limit_exceeded(file.size_bytes)
              THEN [use_base64 |-> FALSE, reason |-> "size_limit_exceeded",
                    error |-> "", steps |-> <<"validate", "size">>]
              ELSE [use_base64 |-> TRUE, reason |-> "size_within_limits",
                    error |-> "", steps |-> <<"validate", "size">>]

\* a read error passed over: the data URI is built from what was read
encode_image_to_base64_ignoring_read_error(file) ==
    IF ~file.exists
    THEN [raised |-> "FileNotFoundError", message |-> "Image file not found"]
    ELSE [raised |-> "", value |-> DataUri(MimeType(Lower(file.suffix)), file)]

\* image_service.py:55-96
encode_image_to_base64(file) ==
    IF ~file.exists
    THEN [raised |-> "FileNotFoundError", message |-> "Image file not found"]
    ELSE IF ~file.reads
         THEN [raised |-> "Base64EncodingError",
               message |-> "Base64 encoding failed: read error"]
         ELSE [raised |-> "", value |-> DataUri(MimeType(Lower(file.suffix)), file)]

\* image_service.py:239-250: the URL fallback raises ImageProcessingError
\* (FALLBACK_FAILED) with the attempts so far, catches it itself and adds it
\* to the attempts
UrlFallback(fallback_attempts) ==
    Append(fallback_attempts,
           [attempt |-> "URL fallback failed", error_code |-> "FALLBACK_FAILED",
            details |-> fallback_attempts])

\* image_service.py:260-267
AllFallbacksFailed(fallback_attempts, steps) ==
    [ok |-> FALSE,
     error |-> [class |-> "ImageProcessingError",
                error_code |-> "ALL_FALLBACKS_FAILED",
                error_summary |-> fallback_attempts],
     steps |-> steps]

\* image_service.py:184-267
create_task_result_with_fallback(file, timestamp, score) ==
    LET base64_decision == should_use_base64(file, FALSE)
    IN  IF base64_decision.use_base64
        THEN LET image_data == encode_image_to_base64(file)
                 steps == base64_decision.steps \o <<"encode">>
             IN  IF image_data.raised = ""
                 THEN IF validate_base64_format(image_data.value)
                      THEN [ok |-> TRUE,
                            task_result |-> [timestamp |-> timestamp,
                                             score |-> score,
                                             image_data |-> image_data.value],
                            steps |-> steps]
                      ELSE AllFallbacksFailed(
                               UrlFallback(<<[attempt |-> "Base64 processing error",
                                              detail |-> "image_data must be a valid data URI"]>>),
                               steps \o <<"fallback">>)
                 ELSE IF image_data.raised = "Base64EncodingError"
                      THEN AllFallbacksFailed(
                               UrlFallback(<<[attempt |-> "Base64 encoding failed",
                                              detail |-> image_data.message]>>),
                               steps \o <<"fallback">>)
                      ELSE AllFallbacksFailed(
                               UrlFallback(<<[attempt |-> "Base64 processing error",
                                              detail |-> image_data.message]>>),
                               steps \o <<"fallback">>)
        ELSE AllFallbacksFailed(
                 UrlFallback(<<[attempt |-> "Base64 not suitable",
                                detail |-> base64_decision.reason]>>),
                 base64_decision.steps \o <<"fallback">>)

\* ------------------------------------------------- process_video_task
\* The run modelled is the one POST /tasks scheduled for this id.
task_id == "t1"

\* The detector's answer for one frame: the faces in the order prepare_data
\* leaves them, each with its confidence, the size of its crop and the smile
\* score the recognizer gives the crop (tenths).
\* A face the detector drops (confidence not above 0.5) or whose crop is empty
\* never reaches the recognizer, so one such face of each kind is enough.
Face ==
    {[confidence |-> 5, crop_size |-> 4, smile_score |-> 9],
     [confidence |-> 9, crop_size |-> 0, smile_score |-> 9]}
    \cup [confidence : {9}, crop_size : {4}, smile_score : {6, 7, 9}]

FaceLists == SeqsUpTo(Face, MaxFaces)

Videos ==
    {NoVideo} \cup
    [opens : {TRUE}, total_frames : {0, 2}, frames : 0..MaxFrames,
     fps : {0, 2}]

\* config.py defines no FRAME_SAMPLE_INTERVAL_SECONDS: the attribute is there
\* only when the deployment has put it on the module (0 s or 1 s here, in
\* tenths of a second).
Configs ==
    {NoConfig} \cup {[FRAME_SAMPLE_INTERVAL_SECONDS |-> i] : i \in {0, 10}}

\* routers.py:275-297: the state POST /tasks leaves behind
Init ==
    /\ SelIdle
    /\ ImgIdle
    /\ ExtIdle
    /\ redis = [k \in TaskIds |->
                  IF k = task_id
                  THEN HSet(NoHash, [filename |-> "a.mp4", progress |-> 0,
                                     created_at |-> 17]
                                    @@ [status |-> "processing"])
                  ELSE NoHash]
    /\ ttl = [k \in TaskIds |-> IF k = task_id THEN "set" ELSE "none"]
    /\ elapsed = [k \in TaskIds |-> FALSE]
    /\ seen = [id |-> "none", found |-> FALSE, data |-> NoHash]
    /\ cl = Idle(0)
    /\ config \in Configs
    /\ video \in Videos
    /\ pc = "start"
    /\ cap = "none"
    /\ video_file = "present"
    /\ fps = 0
    /\ frame_skip = 0
    /\ frame_number = 0
    /\ smile_candidates = <<>>
    /\ top_smiles = <<>>
    /\ staged = <<>>
    /\ scratch = {}
    /\ retrieved = -1
    /\ calls = <<>>
    /\ exc = ""
    /\ status_writes = <<>>
    /\ releases = 0
    /\ unlinks = 0
    /\ escaped = ""

\* the product taken as it comes, without the lower limit of 1
_compute_frame_skip_unclamped(fps_) ==
    LET interval_seconds == Max(config.FRAME_SAMPLE_INTERVAL_SECONDS, 0)
    IN  IF interval_seconds = 0 THEN 1 ELSE (fps_ * interval_seconds) \div 10

\* routers.py:69-73.  fps is a whole number of frames a second and the
\* interval is in tenths of a second, so fps * interval_seconds of the code
\* is (fps_ * interval_seconds) / 10 here; int() of a product that is not
\* negative is its floor.
_compute_frame_skip(fps_) ==
    LET interval_seconds == Max(config.FRAME_SAMPLE_INTERVAL_SECONDS, 0)
    IN  IF interval_seconds = 0 THEN 1
        ELSE Max(1, (fps_ * interval_seconds) \div 10)

\* routers.py:80: int((frame_number / total_frames) * 100).  The frame counts
\* of Videos are powers of two, for which the float quotient and product are
\* exact and int() gives the floor of the exact ratio.
ProgressOf(frame_number_, total_frames) ==
    (frame_number_ * 100) \div total_frames

\* face_detector.py:63: list.sort(key=area, reverse=True), a stable sort.  The
\* boxes have xmin <= xmax and ymin <= ymax, so the crop of a face has as
\* many pixels as its area: crop_size stands for both.
RECURSIVE InsertByArea(_, _)
InsertByArea(sorted, face) ==
    IF sorted = <<>>
    THEN <<face>>
    ELSE IF Head(sorted).crop_size >= face.crop_size
         THEN <<Head(sorted)>> \o InsertByArea(Tail(sorted), face)
         ELSE <<face>> \o sorted

\* face_detector.py:30-66: the detections with conf > 0.5, largest first
RECURSIVE prepare_data(_)
prepare_data(detections) ==
    IF detections = <<>>
    THEN <<>>
    ELSE LET last == detections[Len(detections)]
             before == prepare_data(SubSeq(detections, 1, Len(detections) - 1))
         IN  IF last.confidence > 5 THEN InsertByArea(before, last) ELSE before

\* a score at the threshold taken for a smile
IsSmileAtThreshold(smile_score) == smile_score >= 6

\* routers.py:111
IsSmile(smile_score) == smile_score > 6

\* routers.py:101-118: an empty crop is skipped, a smile gives a candidate
RECURSIVE SmilesOf(_, _, _)
SmilesOf(faces, timestamp, frame_number_) ==
    IF faces = <<>>
    THEN <<>>
    ELSE LET face == Head(faces)
             rest == SmilesOf(Tail(faces), timestamp, frame_number_)
         IN  IF face.crop_size # 0 /\ IsSmile(face.smile_score)
             THEN <<[smile_score |-> face.smile_score,
                     timestamp |-> timestamp,
                     frame |-> frame_number_]>> \o rest
             ELSE rest

\* routers.py:91-120.  timestamp = frame_number / fps if fps else 0.0, in
\* ticks of 1/fps s: frame_number ticks.
_extract_smile_candidates(detections, frame_number_, fps_) ==
    LET faces == prepare_data(detections)
        timestamp == IF fps_ # 0 THEN frame_number_ ELSE 0
    IN  SmilesOf(faces, timestamp, frame_number_)

\* routers.py:127: f"{timestamp:.2f}s", the timestamp in hundredths of a second
TimestampStr(ticks, fps_) == [cs |-> (200 * ticks + fps_) \div (2 * fps_)]

\* routers.py:126-130: what cv2.imwrite leaves at temp_<task_id>_scene_<n>.jpg:
\* the frame as a JPEG file, nothing (imwrite returned False), or a JPEG file
\* whose read fails in the encoder.  The other ways a build fails are those
\* of SpecImage; the run treats them all alike.
StagedFiles ==
    {[exists |-> TRUE, suffix |-> ".jpg", size_bytes |-> 1024,
      readable |-> TRUE, reads |-> TRUE],
     NoFile,
     [exists |-> TRUE, suffix |-> ".jpg", size_bytes |-> 1024,
      readable |-> TRUE, reads |-> FALSE]}

\* the finally clause left out
UnlinkScratchOmitted(file) == file

\* routers.py:157-159: finally, whatever the builder did: the scratch file is
\* unlinked when it exists
UnlinkScratch(file) == IF file.exists THEN NoFile ELSE file

\* routers.py:123-159: the TaskResult of a candidate, or none (None) when
\* the builder raises; as a list, for the caller to append
_create_task_result(candidate, file) ==
    LET task_result ==
            create_task_result_with_fallback(
                file, TimestampStr(candidate.timestamp, fps),
                candidate.smile_score)
    IN  IF task_result.ok THEN <<task_result.task_result>> ELSE <<>>

\* the loop left at the first candidate whose build fails
RECURSIVE BuildResultsUntilFailure(_, _, _)
BuildResultsUntilFailure(selected, files, index) ==
    IF index > Len(selected)
    THEN <<>>
    ELSE IF _create_task_result(selected[index], files[index]) = <<>>
         THEN <<>>
         ELSE _create_task_result(selected[index], files[index])
              \o BuildResultsUntilFailure(selected, files, index + 1)

\* routers.py:176-180
RECURSIVE BuildResults(_, _, _)
BuildResults(selected, files, index) ==
    IF index > Len(selected)
    THEN <<>>
    ELSE _create_task_result(selected[index], files[index])
         \o BuildResults(selected, files, index + 1)

UpdateCall(payload, then) ==
    [op |-> "update_task", arg |-> payload, then |-> then]

AppendCall(results, then) ==
    [op |-> "append_task_results", arg |-> [results |-> results], then |-> then]

\* routers.py:226-235
Open ==
    /\ pc = "start"
    /\ IF ~video.opens
       THEN /\ cap' = "unopened"
            /\ exc' = "Could not open video file"
            /\ pc' = "except"
            /\ UNCHANGED <<fps, frame_skip>>
       ELSE /\ cap' = "opened"
            /\ fps' = IF video.fps = 0 THEN 30 ELSE video.fps
            /\ IF "FRAME_SAMPLE_INTERVAL_SECONDS" \in DOMAIN config
               THEN /\ frame_skip' = _compute_frame_skip(fps')
                    /\ pc' = "grab"
                    /\ exc' = exc
               ELSE /\ exc' = "module 'config' has no attribute 'FRAME_SAMPLE_INTERVAL_SECONDS'"
                    /\ pc' = "except"
                    /\ frame_skip' = frame_skip
    /\ UNCHANGED <<config, video, video_file, frame_number, smile_candidates,
                   top_smiles, staged, scratch, retrieved, calls, status_writes>>
    /\ UNCHANGED <<ext_vars, img_vars, sel_vars, repo_vars, exit_vars>>

\* routers.py:240-246 up to the EXISTS of update_task
Grab ==
    /\ pc = "grab"
    /\ IF frame_number >= video.frames
       THEN pc' = "finalize" /\ calls' = calls
       ELSE IF video.total_frames <= 0
            THEN pc' = "extract" /\ calls' = calls
            ELSE /\ calls' = <<UpdateCall(
                                 [progress |-> ProgressOf(frame_number,
                                                          video.total_frames)],
                                 "extract")>>
                 /\ pc' = "exists"
    /\ retrieved' = -1
    /\ UNCHANGED <<config, video, cap, video_file, fps, frame_skip, frame_number,
                   smile_candidates, top_smiles, staged, scratch, exc, status_writes>>
    /\ UNCHANGED <<ext_vars, img_vars, sel_vars, repo_vars, exit_vars>>

\* the handler letting TaskNotFoundError pass
OnTaskNotFoundUncaughtInHandler(call) ==
    [pc |-> "finally",
     escaped |-> IF "error" \in DOMAIN call.arg THEN "TaskNotFoundError" ELSE ""]

\* routers.py:84-88 with 245-246, 167-171, 188-191, 203-206: every caller of
\* the repository catches TaskNotFoundError, logs a warning and gives the rest
\* of its work up; the run goes on to the finally block with nothing raised.
OnTaskNotFound(call) == [pc |-> "finally", escaped |-> ""]

\* task_repository.py:42-43 and 50-51 in the run: EXISTS; TaskNotFoundError is
\* caught by the caller (routers.py:84, 167, 188, 203), which gives the rest up
RunExists ==
    /\ pc = "exists"
    /\ IF Exists(task_id)
       THEN pc' = "hset" /\ calls' = calls /\ escaped' = escaped
       ELSE /\ pc' = OnTaskNotFound(Head(calls)).pc
            /\ escaped' = OnTaskNotFound(Head(calls)).escaped
            /\ calls' = <<>>
    /\ UNCHANGED <<config, video, cap, video_file, fps, frame_skip, frame_number,
                   smile_candidates, top_smiles, staged, scratch, retrieved, exc, status_writes>>
    /\ UNCHANGED <<ext_vars, img_vars, sel_vars, repo_vars, releases, unlinks>>

\* task_repository.py:45 and 53 in the run: HSET
RunHset ==
    /\ pc = "hset"
    /\ redis' = [redis EXCEPT ![task_id] = HSet(@, Head(calls).arg)]
    /\ status_writes' = IF "status" \in DOMAIN Head(calls).arg
                        THEN Append(status_writes, Head(calls).arg.status)
                        ELSE status_writes
    /\ calls' = Tail(calls)
    /\ pc' = IF Tail(calls) # <<>> THEN "exists" ELSE Head(calls).then
    /\ UNCHANGED <<config, video, cap, video_file, fps, frame_skip, frame_number,
                   smile_candidates, top_smiles, staged, scratch, retrieved, exc>>
    /\ UNCHANGED <<ext_vars, img_vars, sel_vars, ttl, elapsed, seen, cl, exit_vars>>

\* the counter left where it is
NextFrameStuck(frame_number_) == frame_number_

\* routers.py:257
NextFrame(frame_number_) == frame_number_ + 1

\* every frame taken, whatever frame_skip is
IsSampledAlways(frame_number_, frame_skip_) == TRUE

\* routers.py:248
IsSampled(frame_number_, frame_skip_) == frame_number_ % frame_skip_ = 0

\* routers.py:248-257
Extract ==
    /\ pc = "extract"
    /\ \/ /\ ~IsSampled(frame_number, frame_skip)
          /\ UNCHANGED <<smile_candidates, exc, retrieved>>
          /\ frame_number' = NextFrame(frame_number)
          /\ pc' = "grab"
       \/ /\ IsSampled(frame_number, frame_skip)
          /\ \/ /\ UNCHANGED <<smile_candidates, exc, retrieved>>  \* retrieve fails
                /\ frame_number' = NextFrame(frame_number)
                /\ pc' = "grab"
             \/ /\ \E faces \in FaceLists :
                      /\ smile_candidates' = smile_candidates \o
                             _extract_smile_candidates(faces, frame_number, fps)
                      /\ Len(smile_candidates') <= MaxSmiles
                /\ retrieved' = frame_number
                /\ frame_number' = NextFrame(frame_number)
                /\ pc' = "grab"
                /\ exc' = exc
             \/ /\ exc' = "inference failed"               \* the oracle raises
                /\ retrieved' = frame_number
                /\ pc' = "except"
                /\ UNCHANGED <<smile_candidates, frame_number>>
    /\ UNCHANGED <<config, video, cap, video_file, fps, frame_skip, calls,
                   top_smiles, staged, scratch, status_writes>>
    /\ UNCHANGED <<ext_vars, img_vars, sel_vars, repo_vars, exit_vars>>

\* an exception after the record is complete would reach the handler
FinalizeCallsThenRaise(final_results) ==
    <<AppendCall(final_results, "finally"),
      UpdateCall([status |-> "complete", progress |-> 100], "except")>>

\* routers.py:163-171 and 182-191: the two repository calls of finalization
FinalizeCalls(final_results) ==
    IF smile_candidates = <<>>
    THEN <<AppendCall(<<>>, "finally"),
           UpdateCall([status |-> "complete"], "finally")>>
    ELSE <<AppendCall(final_results, "finally"),
           UpdateCall([status |-> "complete", progress |-> 100], "finally")>>

\* routers.py:162-182 up to the first EXISTS.  Sorting, selecting and staging
\* the frames (routers.py:126-130, 157-159, 173-182) stand outside the try
\* blocks of finalization: an exception there leaves _finalize_smile_results
\* for the handler of routers.py:261.
Finalize ==
    /\ pc = "finalize"
    /\ \/ /\ IF smile_candidates = <<>>
             THEN /\ calls' = FinalizeCalls(<<>>)
                  /\ UNCHANGED <<smile_candidates, top_smiles, staged, scratch>>
             ELSE /\ smile_candidates' = SortByScoreDesc(smile_candidates)
                  /\ top_smiles' = select_diverse_candidates(smile_candidates', fps)
                  /\ staged' \in [1..Len(top_smiles') -> StagedFiles]
                  /\ calls' = FinalizeCalls(BuildResults(top_smiles', staged', 1))
                  /\ scratch' = {i \in 1..Len(staged') :
                                    UnlinkScratch(staged'[i]).exists}
          /\ pc' = "exists"
          /\ exc' = exc
       \/ /\ smile_candidates # <<>>
          /\ smile_candidates' = SortByScoreDesc(smile_candidates)
          /\ exc' = "finalization failed"
          /\ pc' = "except"
          /\ UNCHANGED <<top_smiles, staged, scratch, calls>>
    /\ UNCHANGED <<config, video, cap, video_file, fps, frame_skip, frame_number,
                   retrieved, status_writes>>
    /\ UNCHANGED <<ext_vars, img_vars, sel_vars, repo_vars, exit_vars>>

\* the handler recording a message of its own
HandleExceptionOwnMessage ==
    /\ pc = "except"
    /\ calls' = <<UpdateCall([status |-> "error", error |-> "processing failed"],
                             "finally")>>
    /\ pc' = "exists"
    /\ UNCHANGED <<config, video, cap, video_file, fps, frame_skip, frame_number,
                   smile_candidates, top_smiles, staged, scratch, retrieved, exc, status_writes>>
    /\ UNCHANGED <<ext_vars, img_vars, sel_vars, repo_vars, exit_vars>>

\* routers.py:261-262 and 194-202 up to the EXISTS
HandleException ==
    /\ pc = "except"
    /\ calls' = <<UpdateCall([status |-> "error", error |-> exc], "finally")>>
    /\ pc' = "exists"
    /\ UNCHANGED <<config, video, cap, video_file, fps, frame_skip, frame_number,
                   smile_candidates, top_smiles, staged, scratch, retrieved, exc, status_writes>>
    /\ UNCHANGED <<ext_vars, img_vars, sel_vars, repo_vars, exit_vars>>

\* the cleanup at the end of the try block: a run that raised or returned
\* early passes it by
FinallyOnlyAfterTryBlock ==
    /\ pc = "finally"
    /\ IF exc = "" /\ status_writes # <<>>
       THEN /\ cap' = "released"
            /\ releases' = releases + 1
            /\ video_file' = "deleted"
            /\ unlinks' = unlinks + 1
       ELSE UNCHANGED <<cap, releases, video_file, unlinks>>
    /\ pc' = "done"
    /\ UNCHANGED <<config, video, fps, frame_skip, frame_number,
                   smile_candidates, top_smiles, staged, scratch, retrieved, calls, exc, status_writes,
                   escaped>>
    /\ UNCHANGED <<ext_vars, img_vars, sel_vars, repo_vars>>

\* routers.py:263-266 with 209-212: the finally block.  cap is the object
\* cv2.VideoCapture returned, opened or not, and is released when it is not
\* None; the file is unlinked when it exists.
Finally ==
    /\ pc = "finally"
    /\ IF cap # "none"
       THEN cap' = "released" /\ releases' = releases + 1
       ELSE UNCHANGED <<cap, releases>>
    /\ IF video_file = "present"
       THEN video_file' = "deleted" /\ unlinks' = unlinks + 1
       ELSE UNCHANGED <<video_file, unlinks>>
    /\ pc' = "done"
    /\ UNCHANGED <<config, video, fps, frame_skip, frame_number,
                   smile_candidates, top_smiles, staged, scratch, retrieved, calls, exc, status_writes,
                   escaped>>
    /\ UNCHANGED <<ext_vars, img_vars, sel_vars, repo_vars>>

Next ==
    \/ Open
    \/ Grab
    \/ RunExists
    \/ RunHset
    \/ Extract
    \/ Finalize
    \/ HandleException
    \/ Finally
    \/ Delete
    \/ Expire

Spec == Init /\ [][Next]_vars

\* process_video_task is one background thread: whichever step it is at, it
\* takes it (the video is finite, the oracle returns, Redis answers).  DEL
\* and expiry may or may not happen.
RunStep ==
    \/ Open
    \/ Grab
    \/ RunExists
    \/ RunHset
    \/ Extract
    \/ Finalize
    \/ HandleException
    \/ Finally

FairSpec == Spec /\ WF_vars(RunStep)

\* ------------------------------------------------- the selector on its own
SelCandidate == [smile_score : SelScores, timestamp : 0..MaxTs]

SelInit ==
    /\ RepoIdle
    /\ RunIdle
    /\ ImgIdle
    /\ ExtIdle
    /\ sel_in \in SeqsUpTo(SelCandidate, MaxCands)
    /\ sel_thr \in 0..MaxThr
    /\ sel_out = <<>>
    /\ sel_pc = "idle"

\* A direct call: the list is walked in the order given.
CallSelectDirect ==
    /\ sel_pc = "idle"
    /\ sel_out' = select_diverse_candidates(sel_in, sel_thr)
    /\ sel_pc' = "direct"
    /\ UNCHANGED <<sel_in, sel_thr>>
    /\ UNCHANGED <<ext_vars, img_vars, repo_vars, run_vars>>

\* The call as _finalize_smile_results makes it: sort, then select.
CallSortThenSelect ==
    /\ sel_pc = "idle"
    /\ sel_out' = SortThenSelect(sel_in, sel_thr)
    /\ sel_pc' = "sorted"
    /\ UNCHANGED <<sel_in, sel_thr>>
    /\ UNCHANGED <<ext_vars, img_vars, repo_vars, run_vars>>

SelNext == CallSelectDirect \/ CallSortThenSelect

SpecSelect == SelInit /\ [][SelNext]_vars

\* --------------------------------------------- the ImageService on its own
ImgInit ==
    /\ RepoIdle
    /\ RunIdle
    /\ SelIdle
    /\ ExtIdle
    /\ img_file \in ImageFiles
    /\ img_force \in BOOLEAN
    /\ img_out = [ok |-> FALSE]
    /\ img_pc = "idle"

CallShouldUseBase64 ==
    /\ img_pc = "idle"
    /\ img_out' = should_use_base64(img_file, img_force)
    /\ img_pc' = "decided"
    /\ UNCHANGED <<img_file, img_force>>
    /\ UNCHANGED <<ext_vars, sel_vars, repo_vars, run_vars>>

CallCreateTaskResult ==
    /\ img_pc = "idle"
    /\ img_out' = create_task_result_with_fallback(img_file, [cs |-> 200], 9)
    /\ img_pc' = "built"
    /\ UNCHANGED <<img_file, img_force>>
    /\ UNCHANGED <<ext_vars, sel_vars, repo_vars, run_vars>>

ImgNext == CallShouldUseBase64 \/ CallCreateTaskResult

SpecImage == ImgInit /\ [][ImgNext]_vars

\* ======================================================= selector claims
Abs(x) == IF x >= 0 THEN x ELSE 0 - x

SelDone == sel_pc \in {"direct", "sorted"}

\* the timestamp t lies in the interval claimed by a candidate at time c
InClaimedInterval(t, c, time_threshold) ==
    /\ Max(0, 2 * c - time_threshold) <= 2 * t
    /\ 2 * t <= 2 * c + time_threshold

DistinctScores(candidates) ==
    \A i, j \in 1..Len(candidates) :
        i # j => candidates[i].smile_score # candidates[j].smile_score

Orderings(candidates) ==
    {[i \in 1..Len(candidates) |-> candidates[p[i]]] :
        p \in Permutations(1..Len(candidates))}

\* C4 (as claimed): any two distinct candidates returned by
\* select_diverse_candidates have timestamps at least time_threshold apart.
C4_MinimumGapIsThreshold ==
    SelDone =>
        \A i, j \in 1..Len(sel_out) :
            i # j => Abs(sel_out[i].timestamp - sel_out[j].timestamp) >= sel_thr

\* C5: no returned candidate has its timestamp inside the interval
\* [max(0, t - threshold/2), t + threshold/2] claimed by another returned
\* candidate with timestamp t.
C5_NoneInsideClaimedInterval ==
    SelDone =>
        \A i, j \in 1..Len(sel_out) :
            i # j => ~InClaimedInterval(sel_out[j].timestamp,
                                        sel_out[i].timestamp, sel_thr)

C5_Witness ==
    /\ SelDone
    /\ sel_thr > 0
    /\ Len(sel_out) >= 2
    /\ Len(sel_out) < Len(sel_in)

\* C6: after the sort of _finalize_smile_results the selector returns its
\* candidates in non-increasing score order, and every candidate it rejects
\* lies inside the claimed interval of a returned candidate whose score is at
\* least as high.
C6_GreedyByScore ==
    sel_pc = "sorted" =>
        /\ \A i, j \in 1..Len(sel_out) :
               i < j => sel_out[i].smile_score >= sel_out[j].smile_score
        /\ \A c \in Range(sel_in) :
               c \notin Range(sel_out) =>
                   \E r \in Range(sel_out) :
                       /\ r.smile_score >= c.smile_score
                       /\ InClaimedInterval(c.timestamp, r.timestamp, sel_thr)

C6_Witness ==
    /\ sel_pc = "sorted"
    /\ Len(sel_out) >= 2
    /\ \E c \in Range(sel_in) : c \notin Range(sel_out)
    /\ \E i \in 1..Len(sel_in) - 1 :
           sel_in[i].smile_score < sel_in[i + 1].smile_score

\* C7 (as claimed): select_diverse_candidates orders the candidates itself, so
\* any two orderings of the same candidates (pairwise distinct scores) give the
\* same output sequence.
C7_DirectCallIgnoresInputOrder ==
    (sel_pc = "direct" /\ DistinctScores(sel_in)) =>
        \A p \in Orderings(sel_in) :
            select_diverse_candidates(p, sel_thr) = sel_out

\* C7 (amended): the sort is the caller's; sort-then-select gives the same
\* output sequence for every ordering of the same candidates (pairwise
\* distinct scores).
C7_SortThenSelectIgnoresInputOrder ==
    (sel_pc = "sorted" /\ DistinctScores(sel_in)) =>
        \A p \in Orderings(sel_in) :
            SortThenSelect(p, sel_thr) = sel_out

C7_Witness ==
    /\ sel_pc = "sorted"
    /\ DistinctScores(sel_in)
    /\ Len(sel_in) >= 2
    /\ sel_in # SortByScoreDesc(sel_in)
    /\ Len(sel_out) < Len(sel_in)

\* ===================================================== repository claims
\* the step is a call of update_task, append_task_results or get_task on k
CallOnId(k) ==
    \/ \E p \in UpdatePayloads : update_task_exists(k, p)
    \/ \E r \in ResultLists : append_task_results_exists(k, r)
    \/ get_task(k)

CallFailedNotFound(k) ==
    \/ cl' # cl /\ cl'.id = k /\ cl'.pc = "idle" /\ cl'.result = "TaskNotFound"
    \/ seen' # seen /\ seen'.id = k /\ ~seen'.found

\* C8: update, append_results and get on an id that has no record (never
\* created, deleted or expired) each fail with TaskNotFound and leave the
\* store unchanged: no record for that id exists afterwards.
C8_MissingIdFailsNotFound ==
    [][\A k \in TaskIds :
          (~Exists(k) /\ CallOnId(k)) =>
              /\ CallFailedNotFound(k)
              /\ UNCHANGED store_vars
              /\ ~Exists(k)']_vars

C8_Witness ==
    /\ cl.op = "append_task_results"
    /\ cl.result = "TaskNotFound"
    /\ elapsed[cl.id]
    /\ ~seen.found
    /\ seen.id = "t2"
    /\ ~elapsed["t2"]

\* C9 (as claimed): a write to a record that has disappeared never brings a
\* record for that id back: a key that is absent comes into being only by
\* create_task, and then with its TTL.
C9_WriteNeverResurrects ==
    [][\A k \in TaskIds :
          (~Exists(k) /\ Exists(k)') => ttl'[k] = "set"]_vars

\* C10: every step that changes the record of a task id either removes the
\* record or merges the whole mapping of the running call in one step, and
\* create_task's step sets the TTL too: no state, hence no get_task, has some
\* of a call's fields without the others, or a created record without TTL.
C10_WritesAreAtomic ==
    [][\A k \in TaskIds :
          redis'[k] # redis[k] =>
              \/ ~Exists(k)'
              \/ /\ cl'.id = k
                 /\ cl'.result = "ok"
                 /\ redis'[k] = HSet(redis[k], cl'.arg)
                 /\ DOMAIN cl'.arg \subseteq DOMAIN redis'[k]
                 /\ cl'.op = "create_task" => ttl'[k] = "set"]_vars

\* a reader has read the record between the EXISTS and the HSET of an update
\* that writes status and progress together
C10_Witness ==
    /\ cl.pc = "hset"
    /\ DOMAIN cl.arg = {"status", "progress"}
    /\ seen.found
    /\ seen.id = cl.id
    /\ seen.data = GetDecode(redis[cl.id])
    /\ seen.data.status = "processing"

\* C12 (as claimed): the TTL is set by create_task only, so once it has run out
\* since the last create the id has no record: get_task fails with
\* TaskNotFound, whatever updates were made before or around the expiry.
C12_ElapsedTtlMeansNotFound ==
    \A k \in TaskIds : elapsed[k] => ~Exists(k)


\* ======================================================= pipeline claims
\* what get_task(k) returns in this state (TaskNotFoundError: no field)
View(k) == GetDecode(redis[k])

Terminal == {"complete", "error"}

\* C1: the run writes a status at most once, a terminal one, and makes no
\* repository call after it, whatever expiry and deletion do in between.
C1_TerminalAtMostOnce ==
    /\ Len(status_writes) <= 1
    /\ \A i \in 1..Len(status_writes) : status_writes[i] \in Terminal
    /\ status_writes # <<>> => (pc \in {"finally", "done"} /\ calls = <<>>)

C1_Witness ==
    /\ pc = "done"
    /\ status_writes = <<"complete">>
    /\ elapsed[task_id]
    /\ Exists(task_id)

\* C2 (as claimed): whenever a task record has status complete its progress
\* is 100.
C2_CompleteHasProgress100 ==
    \A k \in TaskIds :
        (Exists(k) /\ "status" \in DOMAIN View(k) /\ View(k).status = "complete")
            => ("progress" \in DOMAIN View(k) /\ View(k).progress = 100)

\* The candidates are one per sampled frame of one span a..b longer than the
\* window (fps ticks), and none elsewhere.
CandidateTimes == {smile_candidates[i].timestamp : i \in 1..Len(smile_candidates)}

MinTime == CHOOSE t \in CandidateTimes : \A u \in CandidateTimes : t <= u

MaxTime == CHOOSE t \in CandidateTimes : \A u \in CandidateTimes : t >= u

ContinuousSmile ==
    /\ smile_candidates # <<>>
    /\ MaxTime - MinTime > fps
    /\ \A f \in MinTime..MaxTime :
           f % frame_skip = 0 =>
               Cardinality({i \in 1..Len(smile_candidates) :
                               smile_candidates[i].timestamp = f}) = 1

\* the run has completed the record and the record holds what the run stored
CompletedWithResults ==
    /\ pc = "done"
    /\ status_writes = <<"complete">>
    /\ Exists(task_id)
    /\ "results" \in DOMAIN View(task_id)

\* C3 (as claimed): a continuous smile longer than the window gives exactly
\* one result, with the timestamp of the first frame of the span.
C3_ContinuousSmileGivesOneResult ==
    (CompletedWithResults /\ ContinuousSmile
        /\ Len(View(task_id).results) = Len(top_smiles)) =>
        /\ Len(View(task_id).results) = 1
        /\ View(task_id).results[1].timestamp = TimestampStr(MinTime, fps)

\* C3 (amended): with every image built, such a span gives one result per
\* selected candidate: at least two, the highest score first (the first frame
\* of the span when all scores are equal), any two of them more than half the
\* window apart.
C3_ContinuousSmileGivesSpacedResults ==
    (CompletedWithResults /\ ContinuousSmile
        /\ Len(View(task_id).results) = Len(top_smiles)) =>
        LET results == View(task_id).results
        IN  /\ Len(results) >= 2
            /\ \A i \in 1..Len(smile_candidates) :
                   results[1].score >= smile_candidates[i].smile_score
            /\ (\A i, j \in 1..Len(smile_candidates) :
                   smile_candidates[i].smile_score = smile_candidates[j].smile_score)
                   => results[1].timestamp = TimestampStr(MinTime, fps)
            /\ \A i \in 1..Len(results) :
                   /\ results[i].timestamp = TimestampStr(top_smiles[i].timestamp, fps)
                   /\ results[i].score = top_smiles[i].smile_score
            /\ \A i, j \in 1..Len(top_smiles) :
                   i # j => 2 * Abs(top_smiles[i].timestamp - top_smiles[j].timestamp) > fps

C3_Witness ==
    /\ CompletedWithResults
    /\ ContinuousSmile
    /\ Len(View(task_id).results) = Len(top_smiles)
    /\ Len(top_smiles) >= 2
    /\ top_smiles[1].timestamp # MinTime

\* C11 (as claimed): a record that get_task returns with a results field has
\* status complete; results are never seen on a task still processing.
C11_ResultsOnlyWhenComplete ==
    \A k \in TaskIds :
        "results" \in DOMAIN View(k) =>
            ("status" \in DOMAIN View(k) /\ View(k).status = "complete")

\* C13: on every exit path of process_video_task the capture handle, when one
\* was opened, has been released exactly once and the uploaded file has been
\* unlinked exactly once; neither happens before the run leaves its try block,
\* and neither happens twice.
C13_CleanupExactlyOnce ==
    /\ releases <= 1
    /\ unlinks <= 1
    /\ pc = "done" =>
           /\ unlinks = 1
           /\ video_file = "deleted"
           /\ video.opens => (releases = 1 /\ cap = "released")
    /\ pc # "done" => (releases = 0 /\ unlinks = 0 /\ video_file = "present")

\* the run was cancelled in the frame loop: the record vanished, no status
\* was written
C13_Witness ==
    /\ pc = "done"
    /\ video.opens
    /\ frame_number > 0
    /\ status_writes = <<>>
    /\ exc = ""
    /\ ~Exists(task_id)
    /\ releases = 1
    /\ unlinks = 1

\* the run has decoded a frame and stands before or in the existence check of
\* that frame's progress report
LoopCheckpoint ==
    \/ pc = "grab" /\ frame_number < video.frames
    \/ pc = "exists" /\ calls # <<>> /\ Head(calls).then = "extract"

\* C14 (as claimed): for every decoded frame, whatever total_frames is, a run
\* whose record no longer exists goes through the existence check to the
\* finally block and nowhere else: no oracle call, no finalization, no write;
\* and from the finally block on the run calls nothing.
C14_MissingRecordStopsLoop ==
    [][/\ (LoopCheckpoint /\ ~Exists(task_id) /\ pc' # pc) =>
              /\ pc' \in {"exists", "finally"}
              /\ pc = "exists" => (pc' = "finally" /\ calls' = <<>>)
              /\ UNCHANGED store_vars
       /\ pc \in {"finally", "done"} =>
              (pc' \in {"finally", "done"} /\ calls' = <<>>)]_vars

\* the record k gets an error field, or a new value of it
ErrorFieldWritten(k) ==
    /\ "error" \in DOMAIN redis'[k]
    /\ "error" \in DOMAIN redis[k] => redis'[k].error # redis[k].error

\* C15: an exception raised by the open check, the frame loop or finalization
\* goes to the handler; when the record exists at the handler's check the
\* next write sets status=error and error to the exception's message as it
\* was raised, and the run goes to its finally block; no other step writes
\* the error field.
C15_ErrorRecordedVerbatim ==
    [][/\ exc' # exc => (exc = "" /\ pc' = "except")
       /\ (pc = "except" /\ pc' # pc) => pc' = "exists"
       /\ (exc # "" /\ pc = "exists" /\ Exists(task_id) /\ pc' # pc) =>
              pc' = "hset"
       /\ (exc # "" /\ pc = "hset" /\ pc' # pc) =>
              /\ GetDecode(redis'[task_id]).status = "error"
              /\ GetDecode(redis'[task_id]).error = exc
              /\ pc' = "finally"
       /\ \A k \in TaskIds :
              ErrorFieldWritten(k) =>
                  /\ k = task_id
                  /\ pc = "hset"
                  /\ exc # ""
                  /\ redis'[k].error = exc]_vars

\* the oracle raised in the frame loop and the record holds the message
C15_Witness ==
    /\ pc = "done"
    /\ exc = "inference failed"
    /\ frame_number > 0
    /\ Exists(task_id)
    /\ View(task_id).status = "error"
    /\ View(task_id).error = exc

\* C16: nothing leaves process_video_task as an exception.  A pipeline
\* failure ends as status error or, the record gone, as no status at all; a
\* terminal write whose existence check finds no record is given up, store
\* untouched, and the run goes on to its cleanup and returns.
C16_NeverPropagates ==
    /\ [](escaped = "")
    /\ [](pc = "done" =>
             /\ video_file = "deleted"
             /\ exc # "" => status_writes \in {<<>>, <<"error">>})
    /\ [][(pc = "exists" /\ ~Exists(task_id) /\ pc' # pc
            /\ Head(calls).then = "finally") =>
              /\ pc' = "finally"
              /\ calls' = <<>>
              /\ status_writes' = status_writes
              /\ UNCHANGED store_vars]_vars

\* the handler found the record gone and the run returned
C16_Witness ==
    /\ pc = "done"
    /\ exc # ""
    /\ status_writes = <<>>
    /\ ~Exists(task_id)
    /\ escaped = ""
    /\ video_file = "deleted"

\* the results the run stored are still in the record
StoredResults == View(task_id).results

\* the selected candidates whose scratch file the builder accepted, in
\* selection order
RECURSIVE BuiltOf(_, _, _)
BuiltOf(selected, files, index) ==
    IF index > Len(selected)
    THEN <<>>
    ELSE (IF create_task_result_with_fallback(files[index], [cs |-> 0], 0).ok
          THEN <<selected[index]>>
          ELSE <<>>)
         \o BuiltOf(selected, files, index + 1)

\* C17: when finalization has selected candidates and no exception left it,
\* the results it hands to the repository are one per selected candidate
\* whose build succeeded, in selection order, each with that candidate's
\* timestamp and score, whichever builds failed; the second call sets
\* status complete, and the run writes no error.
C17_FailedBuildDropsOnlyThatCandidate ==
    (staged # <<>> /\ pc \in {"exists", "hset"} /\ Len(calls) = 2) =>
        LET results == calls[1].arg.results
            built == BuiltOf(top_smiles, staged, 1)
        IN  /\ exc = ""
            /\ Len(staged) = Len(top_smiles)
            /\ calls[1].op = "append_task_results"
            /\ Len(results) = Len(built)
            /\ \A i \in 1..Len(results) :
                   /\ results[i].timestamp = TimestampStr(built[i].timestamp, fps)
                   /\ results[i].score = built[i].smile_score
            /\ calls[2].arg.status = "complete"

\* the first of several selected candidates failed to build, a later one was
\* built, and the record is complete with the built ones only
C17_Witness ==
    /\ CompletedWithResults
    /\ Len(top_smiles) >= 2
    /\ ~staged[1].exists
    /\ staged[Len(staged)].exists
    /\ StoredResults # <<>>
    /\ Len(StoredResults) < Len(top_smiles)
    /\ StoredResults[1].score = top_smiles[2].smile_score

\* ================================================= image builder claims
\* image_data has the form data:<mime-type>;base64,<encoded-bytes> with an
\* image MIME type and the base64 text of the bytes of the file
WellFormedImageData(v, file) ==
    /\ DOMAIN v = {"scheme", "mime_type", "encoding", "payload"}
    /\ v.scheme = "data"
    /\ v.mime_type.type = "image"
    /\ v.encoding = "base64"
    /\ v.payload = [b64encode |-> file.size_bytes]

\* the whole file can be read and encoded
Encodable(file) == file.exists /\ file.size_bytes > 0 /\ file.reads

\* C18: a TaskResult the builder returns has timestamp, score and a
\* well-formed image_data, image/jpeg for a .jpg file; a file that cannot be
\* encoded gives an error and no TaskResult; a valid readable file within the
\* size limit gives a TaskResult.
C18_ImageDataWellFormedOrNoResult ==
    img_pc = "built" =>
        /\ img_out.ok =>
               /\ DOMAIN img_out.task_result = {"timestamp", "score", "image_data"}
               /\ WellFormedImageData(img_out.task_result.image_data, img_file)
               /\ Lower(img_file.suffix) = ".jpg" =>
                      img_out.task_result.image_data.mime_type.subtype = "jpeg"
               /\ Encodable(img_file)
        /\ ~Encodable(img_file) =>
               (~img_out.ok /\ "task_result" \notin DOMAIN img_out)
        /\ (validate_image_file(img_file) /\ img_file.reads
              /\ ~size_limit_exceeded(img_file.size_bytes)) => img_out.ok

C18_Witness ==
    /\ img_pc = "built"
    /\ img_file.suffix = ".JPG"
    /\ img_file.size_bytes = 1024
    /\ img_out.ok
    /\ img_out.task_result.image_data.mime_type.subtype = "jpeg"

NotSuitable(reason) == [attempt |-> "Base64 not suitable", detail |-> reason]

\* C19: a valid file over the size limit, or with fallback forced, is not
\* approved for base64; the build of a file over the limit never reaches the
\* encoding step and raises one ImageProcessingError; the error of every
\* failed build ends with the fallback's failure, which carries all the
\* attempts before it; a file of exactly the limit is encoded inline.
C19_OverLimitRaisesAggregatedError ==
    /\ (img_pc = "decided" /\ validate_image_file(img_file)
          /\ (img_force \/ size_limit_exceeded(img_file.size_bytes))) =>
            ~img_out.use_base64
    /\ (img_pc = "built" /\ validate_image_file(img_file)
          /\ size_limit_exceeded(img_file.size_bytes)) =>
            /\ ~img_out.ok
            /\ "encode" \notin Range(img_out.steps)
            /\ img_out.error.class = "ImageProcessingError"
            /\ img_out.error.error_summary =
                   UrlFallback(<<NotSuitable("size_limit_exceeded")>>)
    /\ (img_pc = "built" /\ ~img_out.ok) =>
            LET attempts == img_out.error.error_summary
            IN  /\ Len(attempts) >= 2
                /\ attempts[Len(attempts)].attempt = "URL fallback failed"
                /\ attempts[Len(attempts)].details =
                       SubSeq(attempts, 1, Len(attempts) - 1)
    /\ (img_pc = "built" /\ validate_image_file(img_file) /\ img_file.reads
          /\ img_file.size_bytes = MAX_BASE64_IMAGE_SIZE_MB * BytesPerMB) =>
            (img_out.ok /\ "encode" \in Range(img_out.steps))

C19_Witness ==
    /\ img_pc = "built"
    /\ validate_image_file(img_file)
    /\ img_file.size_bytes = MAX_BASE64_IMAGE_SIZE_MB * BytesPerMB + 1
    /\ ~img_out.ok
    /\ img_out.steps = <<"validate", "size", "fallback">>

\* the file is missing, empty or of an unrecognized extension
FailsValidation(file) ==
    \/ ~file.exists
    \/ file.size_bytes = 0
    \/ Lower(file.suffix) \notin supported_extensions

\* C20 (as claimed): the build of a file that fails validation raises an
\* ImageValidationError and reaches neither the size check nor the encoding.
C20_InvalidFileRaisesValidationError ==
    (img_pc = "built" /\ FailsValidation(img_file)) =>
        /\ ~img_out.ok
        /\ img_out.error.class = "ImageValidationError"
        /\ "size" \notin Range(img_out.steps)
        /\ "encode" \notin Range(img_out.steps)

\* C21: no scratch image file of the task is on disk once the results are
\* built, whichever way each build ended (a result, a validation failure for
\* want of the file, an encoding failure), and none when the run is over.
C21_NoScratchFileRemains == scratch = {}

\* the run is over; one scratch file gave a result, one failed in the encoder
C21_Witness ==
    /\ pc = "done"
    /\ scratch = {}
    /\ \E i, j \in 1..Len(staged) :
           /\ staged[i].exists /\ staged[i].reads
           /\ staged[j].exists /\ ~staged[j].reads

\* a create_task call returns in this step
CreateStep(k) == cl'.op = "create_task" /\ cl'.n = cl.n + 1 /\ cl'.id = k

\* the HSET of an update_task or append_task_results call is done in this step
HsetStep == cl.pc = "hset" /\ cl'.pc = "idle"

\* a get_task call returns in this step
GetStep == seen' # seen

C23_CreateOverwrites ==
    [][ \A k \in TaskIds :
           CreateStep(k) =>
              /\ GetDecode(redis'[k]) = cl'.arg
              /\ ttl'[k] = "set"
      ]_vars

\* the part of C23 that the code keeps: the fields passed and the status are
\* written over the old ones, and the TTL starts anew
C23_CreateResetsFieldsAndTtl ==
    [][ \A k \in TaskIds :
           CreateStep(k) =>
              /\ \A f \in DOMAIN cl'.arg : GetDecode(redis'[k])[f] = cl'.arg[f]
              /\ ttl'[k] = "set"
      ]_vars

\* C24: under the configuration config.py gives by default (the sampling
\* interval not set) the sampler returns 1 once the video is open, and the
\* run does not fail for want of the option.
C24_DefaultConfigSamplesEveryFrame ==
    (config = NoConfig /\ video.opens /\ pc # "start") =>
        /\ frame_skip = 1
        /\ exc # "module 'config' has no attribute 'FRAME_SAMPLE_INTERVAL_SECONDS'"

\* with the option on the module and set to 0 the sampler does return 1
C24_IntervalZeroSamplesEveryFrame ==
    ("FRAME_SAMPLE_INTERVAL_SECONDS" \in DOMAIN config
        /\ config.FRAME_SAMPLE_INTERVAL_SECONDS = 0
        /\ video.opens /\ pc # "start") => frame_skip = 1

\* ------------------------------------------------------------- sampler
\* process_video_task up to the frame loop (routers.py:226-238), for every
\* frame rate a video reports and every interval the option holds.
SamplerConfigs ==
    {[FRAME_SAMPLE_INTERVAL_SECONDS |-> i] : i \in (0 - MaxInterval)..MaxInterval}

SamplerVideos ==
    [opens : {TRUE}, total_frames : {0}, frames : {0}, fps : 0..MaxFps]

SamplerInit ==
    /\ SelIdle
    /\ ImgIdle
    /\ ExtIdle
    /\ RepoIdle
    /\ config \in SamplerConfigs
    /\ video \in SamplerVideos
    /\ pc = "start"
    /\ cap = "none"
    /\ video_file = "present"
    /\ fps = 0
    /\ frame_skip = 0
    /\ frame_number = 0
    /\ smile_candidates = <<>>
    /\ top_smiles = <<>>
    /\ staged = <<>>
    /\ scratch = {}
    /\ retrieved = -1
    /\ calls = <<>>
    /\ exc = ""
    /\ status_writes = <<>>
    /\ releases = 0
    /\ unlinks = 0
    /\ escaped = ""

SamplerNext == Open

SpecSampler == SamplerInit /\ [][SamplerNext]_vars

\* C25: the sampling step N is a positive integer: 1 when the interval I is
\* zero or negative, otherwise the larger of 1 and floor(fps * I), where a
\* reported frame rate of 0 counts as 30.  (I in tenths of a second: n is
\* floor(fps * I / 10) exactly when 10 n <= fps * I < 10 (n + 1).)
C25_FrameSkipIsClampedFloor ==
    pc = "grab" =>
        LET I == config.FRAME_SAMPLE_INTERVAL_SECONDS
            rate == IF video.fps = 0 THEN 30 ELSE video.fps
        IN  /\ frame_skip \in Nat /\ frame_skip >= 1
            /\ I <= 0 => frame_skip = 1
            /\ (I > 0 /\ rate * I < 10) => frame_skip = 1
            /\ (I > 0 /\ rate * I >= 10) =>
                  /\ 10 * frame_skip <= rate * I
                  /\ rate * I < 10 * (frame_skip + 1)
            /\ (video.fps = 30 /\ I = 0) => frame_skip = 1
            /\ (video.fps = 30 /\ I = 20) => frame_skip = 60
            /\ (video.fps = 0 /\ I = 10) => frame_skip = 30

\* no frame rate reported, an interval of 1 s: every 30th frame
C25_Witness ==
    /\ pc = "grab"
    /\ video.fps = 0
    /\ config.FRAME_SAMPLE_INTERVAL_SECONDS = 10
    /\ frame_skip = 30

\* the progress a reader would get for the task, -1 when the record has none
StoredProgress(hash) ==
    IF "progress" \in DOMAIN hash THEN GetDecode(hash).progress ELSE 0 - 1

\* the progress stored changes in this step
ProgressWritten ==
    /\ "progress" \in DOMAIN redis'[task_id]
    /\ StoredProgress(redis'[task_id]) # StoredProgress(redis[task_id])

\* C26: the progress stored for the task is always an integer in 0..100 and
\* never decreases within a run, whatever the number of frames the video
\* delivers is next to the number it reports.
C26_ProgressBoundedAndMonotone ==
    [][ ProgressWritten =>
           /\ StoredProgress(redis'[task_id]) \in 0..100
           /\ StoredProgress(redis'[task_id]) >= StoredProgress(redis[task_id])
      ]_vars

\* the same for the videos that deliver no more frames than they report
C26_HoldsWhenCountIsNotExceeded ==
    [][ (ProgressWritten /\ video.frames <= video.total_frames) =>
           /\ StoredProgress(redis'[task_id]) \in 0..100
           /\ StoredProgress(redis'[task_id]) >= StoredProgress(redis[task_id])
      ]_vars

\* the status a reader would get, "none" when the record is missing or has
\* no status field
StatusOf(k) ==
    IF "status" \in DOMAIN redis[k] THEN View(k).status ELSE "none"

\* C27: under fair scheduling every started run ends, and unless the record
\* goes missing on the way its status becomes "complete" or "error".
C27_RunEndsWithTerminalStatus ==
    /\ <>(pc = "done")
    /\ ([]Exists(task_id)) =>
          <>(StatusOf(task_id) \in Terminal)

\* a run over a video of MaxFrames frames has ended with status "complete"
C27_Witness ==
    /\ pc = "done"
    /\ video.opens /\ video.frames = MaxFrames
    /\ StatusOf(task_id) = "complete"

\* C28: update_task(t, fields) on a record that is there sets the fields
\* named to the values passed and leaves every other field of the record,
\* its TTL and the records of the other ids as they were.
C28_UpdateChangesOnlyNamedFields ==
    [][ (HsetStep /\ cl.op = "update_task" /\ Exists(cl.id)) =>
           /\ DOMAIN redis'[cl.id] = DOMAIN redis[cl.id] \cup DOMAIN cl.arg
           /\ \A f \in DOMAIN cl.arg :
                 GetDecode(redis'[cl.id])[f] = cl.arg[f]
           /\ \A f \in DOMAIN redis[cl.id] \ DOMAIN cl.arg :
                 redis'[cl.id][f] = redis[cl.id][f]
           /\ ttl' = ttl
           /\ elapsed' = elapsed
           /\ \A k \in TaskIds \ {cl.id} : redis'[k] = redis[k]
      ]_vars

\* an update of status and error is done on a record that keeps its
\* filename, progress and created_at, next to another record
C28_Witness ==
    /\ cl.pc = "idle" /\ cl.op = "update_task" /\ cl.result = "ok"
    /\ DOMAIN cl.arg = {"status", "error"}
    /\ DOMAIN redis[cl.id] =
          {"status", "error", "filename", "progress", "created_at"}
    /\ ttl[cl.id] = "set"
    /\ \E k \in TaskIds \ {cl.id} : Exists(k)

\* one pass of the loop body after the progress update: frame frame_number is
\* given to the oracle, skipped, or lost to a failed retrieve
FrameStep == pc = "extract" /\ pc' # "extract"

\* the oracle is invoked on the frame in this step
OracleInvoked == retrieved' = frame_number

\* C29: the oracle is invoked on exactly the frames whose index is a multiple
\* of the skip interval N.
C29_OracleOnExactlyTheMultiplesOfN ==
    [][ FrameStep => (OracleInvoked <=> frame_number % frame_skip = 0) ]_vars

\* C29 as the code has it: every frame the video delivers is grabbed and
\* counted; the oracle is invoked only on frames whose index is a multiple
\* of N, and on such a frame unless its retrieval failed; a frame without an
\* oracle call adds no candidate; every candidate comes from a frame k*N and
\* has the timestamp of that frame (frame ticks are 1/fps s).
C29_OracleOnlyOnRetrievedMultiplesOfN ==
    [][ /\ FrameStep =>
              /\ OracleInvoked => frame_number % frame_skip = 0
              /\ frame_number % frame_skip # 0 => retrieved' = 0 - 1
              /\ ~OracleInvoked =>
                    /\ smile_candidates' = smile_candidates
                    /\ frame_number' = frame_number + 1
                    /\ pc' = "grab"
              /\ pc' = "grab" => frame_number' = frame_number + 1
              /\ \A i \in 1..Len(smile_candidates') :
                    /\ smile_candidates'[i].frame % frame_skip = 0
                    /\ smile_candidates'[i].frame <= frame_number
                    /\ smile_candidates'[i].timestamp = smile_candidates'[i].frame
        /\ (pc = "grab" /\ pc' = "finalize") => frame_number = video.frames
      ]_vars

\* N = 2: frames 0..3 are counted, frame 2 gave a candidate, frames 1 and 3
\* were skipped
C29_Witness ==
    /\ pc = "grab"
    /\ frame_skip = 2
    /\ frame_number = 4
    /\ \E i \in 1..Len(smile_candidates) : smile_candidates[i].frame = 2

\* ----------------------------------------------------------- extractor
\* _extract_smile_candidates applied to the detections of one frame: every
\* confidence, crop and smile score on either side of its thresholds.
ExtFace ==
    [confidence : {4, 5, 6}, crop_size : {0, 4, 8}, smile_score : {5, 6, 7}]

ExtInit ==
    /\ SelIdle
    /\ ImgIdle
    /\ RepoIdle
    /\ RunIdle
    /\ ext_faces \in SeqsUpTo(ExtFace, MaxFaces)
    /\ ext_frame_number \in 0..MaxFrames
    /\ ext_fps \in {0, 2, 30}
    /\ ext_out = <<>>
    /\ ext_pc = "idle"

CallExtract ==
    /\ ext_pc = "idle"
    /\ ext_out' = _extract_smile_candidates(ext_faces, ext_frame_number, ext_fps)
    /\ ext_pc' = "done"
    /\ UNCHANGED <<ext_faces, ext_frame_number, ext_fps>>
    /\ UNCHANGED <<img_vars, sel_vars, repo_vars, run_vars>>

ExtNext == CallExtract

SpecExtract == ExtInit /\ [][ExtNext]_vars

\* the faces the claim lets through
Qualifies(face) ==
    face.confidence > 5 /\ face.crop_size > 0 /\ face.smile_score > 6

\* C30: for a frame given to it, the extractor returns one candidate for each
\* face with confidence above 0.5, a crop that is not empty and a smile score
\* above 0.6, and nothing for any other face; each candidate carries the
\* score of its face and the timestamp of the frame (0 when fps is falsy).
C30_OneCandidatePerQualifyingFace ==
    ext_pc = "done" =>
        /\ \A score \in {5, 6, 7} :
              Cardinality({i \in 1..Len(ext_out) : ext_out[i].smile_score = score})
                = Cardinality({j \in 1..Len(ext_faces) :
                                  /\ Qualifies(ext_faces[j])
                                  /\ ext_faces[j].smile_score = score})
        /\ \A i \in 1..Len(ext_out) :
              /\ ext_out[i].smile_score \in {5, 6, 7}
              /\ ext_out[i].timestamp =
                    IF ext_fps = 0 THEN 0 ELSE ext_frame_number
              /\ ext_out[i].frame = ext_frame_number

\* two faces, one smiling above both thresholds and one with a smile score of
\* exactly 0.6: one candidate, at the timestamp of frame 3
C30_Witness ==
    /\ ext_pc = "done"
    /\ Len(ext_faces) = 2
    /\ \E j \in 1..2 : Qualifies(ext_faces[j])
    /\ \E j \in 1..2 : /\ ext_faces[j].smile_score = 6
                         /\ ext_faces[j].confidence = 6
                         /\ ext_faces[j].crop_size > 0
    /\ ext_frame_number = 3 /\ ext_fps = 2
    /\ Len(ext_out) = 1 /\ ext_out[1].timestamp = 3

\* C31: a record that a reader gets with status "complete" holds its results
\* field (the empty list at least) in the same reply, under every
\* interleaving of the run with DEL and key expiry.
C31_CompleteImpliesResults ==
    \A k \in TaskIds :
        StatusOf(k) = "complete" => "results" \in DOMAIN View(k)

\* the same when the HSET that sets "complete" finds the record its EXISTS
\* saw: the results were stored by the call before
C31_HoldsWhenRecordOutlivesTheCheck ==
    [][ (StatusOf(task_id) # "complete" /\ StatusOf(task_id)' = "complete"
            /\ Exists(task_id))
           => "results" \in DOMAIN redis'[task_id]
      ]_vars

\* C32: the results stored for a completed task hold at most one result per
\* frame timestamp, for each timestamp the result of the highest-scored
\* candidate of that frame, in order of non-increasing score, and never more
\* results than candidates were found.
C32_OneResultPerTimestampBestFirst ==
    CompletedWithResults =>
        LET results == StoredResults
        IN  /\ \A i, j \in 1..Len(results) :
                   i < j => /\ results[i].timestamp # results[j].timestamp
                            /\ results[i].score >= results[j].score
            /\ \A i \in 1..Len(results) : \A c \in 1..Len(smile_candidates) :
                   TimestampStr(smile_candidates[c].timestamp, fps)
                       = results[i].timestamp
                     => results[i].score >= smile_candidates[c].smile_score
            /\ Len(results) <= Len(smile_candidates)

\* the selector part of C32 for every threshold, 0 included: sort-then-select
\* keeps one candidate per timestamp, the highest-scored one, best first
C32_SelectorKeepsBestPerTimestamp ==
    sel_pc = "sorted" =>
        /\ \A i, j \in 1..Len(sel_out) :
               i < j => /\ sel_out[i].timestamp # sel_out[j].timestamp
                        /\ sel_out[i].smile_score >= sel_out[j].smile_score
        /\ \A i \in 1..Len(sel_out) : \A c \in 1..Len(sel_in) :
               sel_in[c].timestamp = sel_out[i].timestamp
                 => sel_out[i].smile_score >= sel_in[c].smile_score
        /\ sel_thr = 0 =>
               \A c \in 1..Len(sel_in) : \E i \in 1..Len(sel_out) :
                   sel_out[i].timestamp = sel_in[c].timestamp
        /\ Len(sel_out) <= Len(sel_in)

\* a completed task with two results of different scores, one of them from a
\* frame in which two faces smiled with different scores
C32_Witness ==
    /\ CompletedWithResults
    /\ Len(StoredResults) >= 2
    /\ StoredResults[1].score > StoredResults[2].score
    /\ \E c, d \in 1..Len(smile_candidates) :
           /\ smile_candidates[c].timestamp = smile_candidates[d].timestamp
           /\ smile_candidates[c].smile_score > smile_candidates[d].smile_score
           /\ \E i \in 1..Len(StoredResults) :
                  /\ StoredResults[i].timestamp =
                        TimestampStr(smile_candidates[c].timestamp, fps)
                  /\ StoredResults[i].score = smile_candidates[c].smile_score

====
